---------------------------- MODULE Spec2Model ----------------------------
(***************************************************************************)
(* ros2-client: the parameter marshaller (src/src/parameters.rs) and the   *)
(* typed Publisher / Subscription layer (src/src/pubsub.rs).               *)
(*                                                                         *)
(* The marshaller is a pair of pure conversions; they are applied by the   *)
(* actions of SpecMarshal to inputs drawn from bounded sets.  The          *)
(* Publisher and the Subscription are thin layers over a DDS DataWriter /  *)
(* SimpleDataReader; SpecPubSub runs them against a model of that          *)
(* transport endpoint.                                                     *)
(***************************************************************************)
EXTENDS Integers, Sequences, FiniteSets, TLC

VARIABLES
  param,           \* the ParameterValue handed to the encoder, or Null
  raw_param,       \* the raw::ParameterValue in hand, or Null
  param_origin,    \* "none" | "encoded" | "received": where raw_param came from
  decoded_param,   \* the ParameterValue decoded from raw_param, or Null
  result,          \* the SetParametersResult handed to the encoder, or Null
  raw_result,      \* the raw::SetParametersResult in hand, or Null
  result_origin,   \* "none" | "encoded" | "received"
  decoded_result,  \* the SetParametersResult decoded from raw_result, or Null
  \* --- Subscription<M> and the SimpleDataReader it owns ---
  cache,           \* samples the datareader has buffered and not yet handed out
  notifications,   \* read notifications pending in the datareader
  source_open,     \* FALSE once the datareader's sample source has ended
  taken,           \* history: the samples the datareader handed out, in order
  delivered,       \* history: the (message, MessageInfo) pairs returned to the caller
  take_streak,     \* history: successive take() calls that returned a sample, with
                   \* no arrival and no other call on the Subscription in between
  async_take_pc,   \* "idle" | "awaiting": the future returned by async_take
  stream_pc,       \* "none" | "open" | "done": the Stream returned by async_stream
  last,            \* history: the last completed Subscription call
  \* --- Publisher<M> and the DataWriter it owns ---
  clock,           \* Timestamp::now()
  sent,            \* what the datawriter accepted, in order
  async_publish_pc,\* Null, or the message an async_publish future holds
  pub_last         \* history: the last completed Publisher call

marshal_vars ==
  <<param, raw_param, param_origin, decoded_param,
    result, raw_result, result_origin, decoded_result>>

sub_vars ==
  <<cache, notifications, source_open, taken, delivered, take_streak, async_take_pc,
    stream_pc, last>>

pub_vars == <<clock, sent, async_publish_pc, pub_last>>

vars == <<marshal_vars, sub_vars, pub_vars>>

Null == [kind |-> "Null"]

(***************************************************************************)
(* Bounds and the payload universes the inputs are drawn from.             *)
(***************************************************************************)
MaxLen == 2
MaxSamples == 2
MaxSent == 2
MaxClock == 2

Bools == BOOLEAN
I64s == {-1, 0, 42}
\* f64 payloads are opaque bit patterns here; the conversions only move them.
F64s == {"0.0", "1.5", "NaN"}
Strings == {"", "a", "b"}
Bytes == {0, 255}

SeqsUpTo(S, n) == UNION {[1..k -> S] : k \in 0..n}

(***************************************************************************)
(* parameters.rs: ParameterValue, raw::ParameterType, raw::ParameterValue  *)
(***************************************************************************)
ParameterType_NOT_SET == 0
ParameterType_BOOL == 1
ParameterType_INTEGER == 2
ParameterType_DOUBLE == 3
ParameterType_STRING == 4
ParameterType_BYTE_ARRAY == 5
ParameterType_BOOL_ARRAY == 6
ParameterType_INTEGER_ARRAY == 7
ParameterType_DOUBLE_ARRAY == 8
ParameterType_STRING_ARRAY == 9

\* enum ParameterValue: ten alternatives, nine of them with a payload.
ParameterValue ==
  {[kind |-> "NotSet"]}
  \cup {[kind |-> "Boolean", payload |-> b] : b \in Bools}
  \cup {[kind |-> "Integer", payload |-> i] : i \in I64s}
  \cup {[kind |-> "Double", payload |-> d] : d \in F64s}
  \cup {[kind |-> "String", payload |-> s] : s \in Strings}
  \cup {[kind |-> "ByteArray", payload |-> a] : a \in SeqsUpTo(Bytes, MaxLen)}
  \cup {[kind |-> "BooleanArray", payload |-> a] : a \in SeqsUpTo(Bools, MaxLen)}
  \cup {[kind |-> "IntegerArray", payload |-> a] : a \in SeqsUpTo(I64s, MaxLen)}
  \cup {[kind |-> "DoubleArray", payload |-> a] : a \in SeqsUpTo(F64s, MaxLen)}
  \cup {[kind |-> "StringArray", payload |-> a] : a \in SeqsUpTo(Strings, MaxLen)}

\* ParameterValue::to_parameter_type_enum
to_parameter_type_enum(p) ==
  CASE p.kind = "NotSet" -> 0
    [] p.kind = "Boolean" -> 1
    [] p.kind = "Integer" -> 2
    [] p.kind = "Double" -> 3
    [] p.kind = "String" -> 4
    [] p.kind = "ByteArray" -> 5
    [] p.kind = "BooleanArray" -> 6
    [] p.kind = "IntegerArray" -> 7
    [] p.kind = "DoubleArray" -> 8
    [] p.kind = "StringArray" -> 9

\* The struct literal `let mut value = raw::ParameterValue {..}` the encoder starts from.
raw_ParameterValue_initial ==
  [ptype |-> ParameterType_NOT_SET,
   boolean_value |-> FALSE,
   int_value |-> 0,
   double_value |-> "0.0",
   string_value |-> "",
   byte_array |-> <<>>,
   int_array |-> <<>>,
   bool_array |-> <<>>,
   double_array |-> <<>>,
   string_array |-> <<>>]

\* A plausible slip: the integer-array payload written to byte_array's neighbour slot.
raw_ParameterValue_from_wrong_slot(p) ==
  LET value == raw_ParameterValue_initial IN
  CASE p.kind = "NotSet" -> value
    [] p.kind = "Boolean" -> [value EXCEPT !.ptype = ParameterType_BOOL, !.boolean_value = p.payload]
    [] p.kind = "Integer" -> [value EXCEPT !.ptype = ParameterType_INTEGER, !.int_value = p.payload]
    [] p.kind = "Double" -> [value EXCEPT !.ptype = ParameterType_DOUBLE, !.double_value = p.payload]
    [] p.kind = "String" -> [value EXCEPT !.ptype = ParameterType_STRING, !.string_value = p.payload]
    [] p.kind = "ByteArray" -> [value EXCEPT !.ptype = ParameterType_BYTE_ARRAY, !.byte_array = p.payload]
    [] p.kind = "BooleanArray" -> [value EXCEPT !.ptype = ParameterType_BOOL_ARRAY, !.bool_array = p.payload]
    [] p.kind = "IntegerArray" -> [value EXCEPT !.ptype = ParameterType_INTEGER_ARRAY, !.byte_array = p.payload]
    [] p.kind = "DoubleArray" -> [value EXCEPT !.ptype = ParameterType_DOUBLE_ARRAY, !.double_array = p.payload]
    [] p.kind = "StringArray" -> [value EXCEPT !.ptype = ParameterType_STRING_ARRAY, !.string_array = p.payload]

\* impl From<ParameterValue> for raw::ParameterValue
raw_ParameterValue_from(p) ==
  LET value == raw_ParameterValue_initial IN
  CASE p.kind = "NotSet" -> value
    [] p.kind = "Boolean" -> [value EXCEPT !.ptype = ParameterType_BOOL, !.boolean_value = p.payload]
    [] p.kind = "Integer" -> [value EXCEPT !.ptype = ParameterType_INTEGER, !.int_value = p.payload]
    [] p.kind = "Double" -> [value EXCEPT !.ptype = ParameterType_DOUBLE, !.double_value = p.payload]
    [] p.kind = "String" -> [value EXCEPT !.ptype = ParameterType_STRING, !.string_value = p.payload]
    [] p.kind = "ByteArray" -> [value EXCEPT !.ptype = ParameterType_BYTE_ARRAY, !.byte_array = p.payload]
    [] p.kind = "BooleanArray" -> [value EXCEPT !.ptype = ParameterType_BOOL_ARRAY, !.bool_array = p.payload]
    [] p.kind = "IntegerArray" -> [value EXCEPT !.ptype = ParameterType_INTEGER_ARRAY, !.int_array = p.payload]
    [] p.kind = "DoubleArray" -> [value EXCEPT !.ptype = ParameterType_DOUBLE_ARRAY, !.double_array = p.payload]
    [] p.kind = "StringArray" -> [value EXCEPT !.ptype = ParameterType_STRING_ARRAY, !.string_array = p.payload]

\* A plausible slip: two match arms of the decoder read each other's slot.
ParameterValue_from_swapped_arms(rpv) ==
  CASE rpv.ptype = ParameterType_NOT_SET -> [kind |-> "NotSet"]
    [] rpv.ptype = ParameterType_BOOL -> [kind |-> "Boolean", payload |-> rpv.boolean_value]
    [] rpv.ptype = ParameterType_INTEGER -> [kind |-> "Integer", payload |-> rpv.int_value]
    [] rpv.ptype = ParameterType_DOUBLE -> [kind |-> "Double", payload |-> rpv.double_value]
    [] rpv.ptype = ParameterType_STRING -> [kind |-> "String", payload |-> rpv.string_value]
    [] rpv.ptype = ParameterType_BYTE_ARRAY -> [kind |-> "ByteArray", payload |-> rpv.byte_array]
    [] rpv.ptype = ParameterType_BOOL_ARRAY -> [kind |-> "BooleanArray", payload |-> rpv.bool_array]
    [] rpv.ptype = ParameterType_INTEGER_ARRAY -> [kind |-> "IntegerArray", payload |-> rpv.int_array]
    [] rpv.ptype = ParameterType_DOUBLE_ARRAY -> [kind |-> "DoubleArray", payload |-> rpv.string_array]
    [] rpv.ptype = ParameterType_STRING_ARRAY -> [kind |-> "StringArray", payload |-> rpv.double_array]
    [] OTHER -> [kind |-> "NotSet"]

\* A plausible slip: the catch-all arm falls through to the last known alternative.
ParameterValue_from_no_fallback(rpv) ==
  CASE rpv.ptype = ParameterType_NOT_SET -> [kind |-> "NotSet"]
    [] rpv.ptype = ParameterType_BOOL -> [kind |-> "Boolean", payload |-> rpv.boolean_value]
    [] rpv.ptype = ParameterType_INTEGER -> [kind |-> "Integer", payload |-> rpv.int_value]
    [] rpv.ptype = ParameterType_DOUBLE -> [kind |-> "Double", payload |-> rpv.double_value]
    [] rpv.ptype = ParameterType_STRING -> [kind |-> "String", payload |-> rpv.string_value]
    [] rpv.ptype = ParameterType_BYTE_ARRAY -> [kind |-> "ByteArray", payload |-> rpv.byte_array]
    [] rpv.ptype = ParameterType_BOOL_ARRAY -> [kind |-> "BooleanArray", payload |-> rpv.bool_array]
    [] rpv.ptype = ParameterType_INTEGER_ARRAY -> [kind |-> "IntegerArray", payload |-> rpv.int_array]
    [] rpv.ptype = ParameterType_DOUBLE_ARRAY -> [kind |-> "DoubleArray", payload |-> rpv.double_array]
    [] OTHER -> [kind |-> "StringArray", payload |-> rpv.string_array]

\* impl From<raw::ParameterValue> for ParameterValue
ParameterValue_from(rpv) ==
  CASE rpv.ptype = ParameterType_NOT_SET -> [kind |-> "NotSet"]
    [] rpv.ptype = ParameterType_BOOL -> [kind |-> "Boolean", payload |-> rpv.boolean_value]
    [] rpv.ptype = ParameterType_INTEGER -> [kind |-> "Integer", payload |-> rpv.int_value]
    [] rpv.ptype = ParameterType_DOUBLE -> [kind |-> "Double", payload |-> rpv.double_value]
    [] rpv.ptype = ParameterType_STRING -> [kind |-> "String", payload |-> rpv.string_value]
    [] rpv.ptype = ParameterType_BYTE_ARRAY -> [kind |-> "ByteArray", payload |-> rpv.byte_array]
    [] rpv.ptype = ParameterType_BOOL_ARRAY -> [kind |-> "BooleanArray", payload |-> rpv.bool_array]
    [] rpv.ptype = ParameterType_INTEGER_ARRAY -> [kind |-> "IntegerArray", payload |-> rpv.int_array]
    [] rpv.ptype = ParameterType_DOUBLE_ARRAY -> [kind |-> "DoubleArray", payload |-> rpv.double_array]
    [] rpv.ptype = ParameterType_STRING_ARRAY -> [kind |-> "StringArray", payload |-> rpv.string_array]
    [] OTHER -> [kind |-> "NotSet"]

\* struct raw::ParameterValue as it may arrive from a peer: ptype is any u8 and
\* every slot is filled independently of it.
PTypes == (0..10) \cup {128, 255}

raw_ParameterValue ==
  [ptype : PTypes,
   boolean_value : BOOLEAN,
   int_value : {0, 7},
   double_value : {"0.0", "2.5"},
   string_value : {"", "x"},
   byte_array : {<<>>, <<9>>},
   int_array : {<<>>, <<7>>},
   bool_array : {<<>>, <<TRUE>>},
   double_array : {<<>>, <<"2.5">>},
   string_array : {<<>>, <<"x">>}]

(***************************************************************************)
(* parameters.rs: SetParametersResult = Result<(), String> and its wire    *)
(* form raw::SetParametersResult {successful, reason}                      *)
(***************************************************************************)
Reasons == {"", "read-only", "out of range"}

SetParametersResult ==
  {[kind |-> "Ok"]} \cup {[kind |-> "Err", reason |-> r] : r \in Reasons}

raw_SetParametersResult == [successful : BOOLEAN, reason : Reasons]

\* A plausible slip: the failure arm reports the flag of the success arm.
raw_SetParametersResult_from_flag_stuck(s) ==
  IF s.kind = "Ok"
    THEN [successful |-> TRUE, reason |-> ""]
    ELSE [successful |-> TRUE, reason |-> s.reason]

\* impl From<SetParametersResult> for raw::SetParametersResult
raw_SetParametersResult_from(s) ==
  IF s.kind = "Ok"
    THEN [successful |-> TRUE, reason |-> ""]
    ELSE [successful |-> FALSE, reason |-> s.reason]

\* The inverse conversion (wire record -> outcome).  parameters.rs declares the
\* wire record but holds no conversion out of it; this is the design's rule:
\* flag set -> success, the reason ignored; flag clear -> failure(reason).
SetParametersResult_from(rs) ==
  IF rs.successful
    THEN [kind |-> "Ok"]
    ELSE [kind |-> "Err", reason |-> rs.reason]

(***************************************************************************)
(* The marshaller's operations as steps.                                   *)
(***************************************************************************)
MarshalInit ==
  /\ param = Null
  /\ raw_param = Null
  /\ param_origin = "none"
  /\ decoded_param = Null
  /\ result = Null
  /\ raw_result = Null
  /\ result_origin = "none"
  /\ decoded_result = Null

\* let raw: raw::ParameterValue = p.into()
EncodeParameterValue ==
  /\ raw_param = Null
  /\ \E p \in ParameterValue :
       /\ param' = p
       /\ raw_param' = raw_ParameterValue_from(p)
  /\ param_origin' = "encoded"
  /\ UNCHANGED <<decoded_param, result, raw_result, result_origin, decoded_result>>
  /\ UNCHANGED <<sub_vars, pub_vars>>

\* A raw::ParameterValue deserialized from a peer's message.
ReceiveRawParameterValue ==
  /\ raw_param = Null
  /\ \E rpv \in raw_ParameterValue : raw_param' = rpv
  /\ param_origin' = "received"
  /\ UNCHANGED <<param, decoded_param, result, raw_result, result_origin, decoded_result>>
  /\ UNCHANGED <<sub_vars, pub_vars>>

\* let p: ParameterValue = raw.into()
DecodeParameterValue ==
  /\ raw_param # Null
  /\ decoded_param = Null
  /\ decoded_param' = ParameterValue_from(raw_param)
  /\ UNCHANGED <<param, raw_param, param_origin, result, raw_result, result_origin,
                 decoded_result>>
  /\ UNCHANGED <<sub_vars, pub_vars>>

\* The values are dropped; the next conversion starts afresh.
DropParameterValue ==
  /\ raw_param # Null
  /\ param' = Null
  /\ raw_param' = Null
  /\ param_origin' = "none"
  /\ decoded_param' = Null
  /\ UNCHANGED <<result, raw_result, result_origin, decoded_result>>
  /\ UNCHANGED <<sub_vars, pub_vars>>

\* let raw: raw::SetParametersResult = s.into()
EncodeSetParametersResult ==
  /\ raw_result = Null
  /\ \E s \in SetParametersResult :
       /\ result' = s
       /\ raw_result' = raw_SetParametersResult_from(s)
  /\ result_origin' = "encoded"
  /\ UNCHANGED <<param, raw_param, param_origin, decoded_param, decoded_result>>
  /\ UNCHANGED <<sub_vars, pub_vars>>

\* A raw::SetParametersResult deserialized from a peer's message.
ReceiveRawSetParametersResult ==
  /\ raw_result = Null
  /\ \E rs \in raw_SetParametersResult : raw_result' = rs
  /\ result_origin' = "received"
  /\ UNCHANGED <<param, raw_param, param_origin, decoded_param, result, decoded_result>>
  /\ UNCHANGED <<sub_vars, pub_vars>>

DecodeSetParametersResult ==
  /\ raw_result # Null
  /\ decoded_result = Null
  /\ decoded_result' = SetParametersResult_from(raw_result)
  /\ UNCHANGED <<param, raw_param, param_origin, decoded_param, result, raw_result,
                 result_origin>>
  /\ UNCHANGED <<sub_vars, pub_vars>>

DropSetParametersResult ==
  /\ raw_result # Null
  /\ result' = Null
  /\ raw_result' = Null
  /\ result_origin' = "none"
  /\ decoded_result' = Null
  /\ UNCHANGED <<param, raw_param, param_origin, decoded_param>>
  /\ UNCHANGED <<sub_vars, pub_vars>>

MarshalNext ==
  \/ EncodeParameterValue
  \/ ReceiveRawParameterValue
  \/ DecodeParameterValue
  \/ DropParameterValue
  \/ EncodeSetParametersResult
  \/ ReceiveRawSetParametersResult
  \/ DecodeSetParametersResult
  \/ DropSetParametersResult

(***************************************************************************)
(* Claims about the marshaller, checked under SpecMarshal.                 *)
(***************************************************************************)

\* C1: for every ParameterValue v of each of the ten alternatives, empty
\* strings and empty sequences included, encoding v and decoding the wire
\* record gives back v; the encoder is defined on every v (it yields a wire
\* record of the declared shape, never a failure).
C1_RoundTrip ==
  /\ param_origin = "encoded" =>
       /\ raw_param # Null
       /\ DOMAIN raw_param = DOMAIN raw_ParameterValue_initial
  /\ (param_origin = "encoded" /\ decoded_param # Null) => decoded_param = param

\* A round trip of a non-empty sequence payload has completed.
C1_Witness ==
  /\ param_origin = "encoded"
  /\ decoded_param # Null
  /\ param.kind = "StringArray"
  /\ Len(param.payload) = MaxLen

\* The design's table of alternatives: tag number and dedicated slot.
TagTable ==
  [NotSet |-> [tag |-> 0, slot |-> "none"],
   Boolean |-> [tag |-> 1, slot |-> "boolean_value"],
   Integer |-> [tag |-> 2, slot |-> "int_value"],
   Double |-> [tag |-> 3, slot |-> "double_value"],
   String |-> [tag |-> 4, slot |-> "string_value"],
   ByteArray |-> [tag |-> 5, slot |-> "byte_array"],
   BooleanArray |-> [tag |-> 6, slot |-> "bool_array"],
   IntegerArray |-> [tag |-> 7, slot |-> "int_array"],
   DoubleArray |-> [tag |-> 8, slot |-> "double_array"],
   StringArray |-> [tag |-> 9, slot |-> "string_array"]]

SlotDefault ==
  [boolean_value |-> FALSE,
   int_value |-> 0,
   double_value |-> "0.0",
   string_value |-> "",
   byte_array |-> <<>>,
   int_array |-> <<>>,
   bool_array |-> <<>>,
   double_array |-> <<>>,
   string_array |-> <<>>]

\* C2: encode(v) carries the tag number of v's alternative in ptype (the
\* number to_parameter_type_enum(v) returns), v's payload in the slot of
\* that alternative, and the fixed default in each of the other slots.
C2_EncodingRule ==
  param_origin = "encoded" =>
    LET row == TagTable[param.kind] IN
    /\ raw_param.ptype = row.tag
    /\ raw_param.ptype = to_parameter_type_enum(param)
    /\ \A slot \in DOMAIN SlotDefault :
         IF slot = row.slot
           THEN raw_param[slot] = param.payload
           ELSE raw_param[slot] = SlotDefault[slot]

\* An array alternative with a payload that differs from the default is encoded.
C2_Witness ==
  /\ param_origin = "encoded"
  /\ param.kind = "IntegerArray"
  /\ Len(param.payload) = MaxLen
  /\ raw_param.int_array = param.payload

\* C3: a wire record whose ptype is outside 0..9 decodes to NotSet whatever
\* its slots hold; decoding yields a ParameterValue for every wire record.
C3_UnknownDiscriminant ==
  /\ (raw_param # Null /\ decoded_param # Null /\ raw_param.ptype \notin 0..9)
       => decoded_param = [kind |-> "NotSet"]
  /\ decoded_param # Null =>
       decoded_param.kind \in {"NotSet", "Boolean", "Integer", "Double", "String",
                               "ByteArray", "BooleanArray", "IntegerArray",
                               "DoubleArray", "StringArray"}

\* A record with ptype 255 and every slot filled has been decoded.
C3_Witness ==
  /\ param_origin = "received"
  /\ decoded_param # Null
  /\ raw_param.ptype = 255
  /\ raw_param.boolean_value
  /\ raw_param.int_value # 0
  /\ raw_param.string_value # ""
  /\ raw_param.string_array # <<>>
  /\ raw_param.byte_array # <<>>

\* C10: Ok encodes to (successful = TRUE, reason = ""), Err(r) to
\* (successful = FALSE, reason = r), and decoding the encoded record gives
\* back Ok, respectively Err(r) for every non-empty r.
C10_OutcomeRoundTrip ==
  /\ (result_origin = "encoded" /\ result.kind = "Ok")
       => raw_result = [successful |-> TRUE, reason |-> ""]
  /\ (result_origin = "encoded" /\ result.kind = "Err")
       => raw_result = [successful |-> FALSE, reason |-> result.reason]
  /\ (result_origin = "encoded" /\ decoded_result # Null
        /\ (result.kind = "Ok" \/ result.reason # ""))
       => decoded_result = result

\* A failure with a non-empty reason has made the round trip.
C10_Witness ==
  /\ result_origin = "encoded"
  /\ decoded_result # Null
  /\ result.kind = "Err"
  /\ result.reason # ""

(***************************************************************************)
(* pubsub.rs: Subscription<M> over a SimpleDataReader.                     *)
(***************************************************************************)
None_ == [some |-> FALSE]
Some(x) == [some |-> TRUE, v |-> x]

Timestamp_ZERO == 0

\* What the transport may record for a sample.
Guids == {"writerA", "writerB"}
\* (source timestamp, related sample identity): a sample without either, a
\* stamped publication, and a stamped reply to an earlier request.
SampleInfos ==
  {[source_timestamp |-> None_, related_sample_identity |-> None_],
   [source_timestamp |-> Some(5), related_sample_identity |-> None_],
   [source_timestamp |-> Some(5),
    related_sample_identity |-> Some([writer_guid |-> "client", sequence_number |-> 7])]}

\* Every sample the datareader has buffered so far, in arrival order.
Arrived == taken \o cache

\* Sequence numbers are assigned by the sending endpoint, one counter each.
NextSequenceNumber(g) ==
  1 + Cardinality({i \in 1..Len(Arrived) : Arrived[i].writer_guid = g})

\* The DeserializedCacheChange<M> the datareader builds for a buffered sample.
DeserializedCacheChange(s) ==
  [value |-> s.value,
   source_timestamp |-> s.source_timestamp,
   sequence_number |-> s.sequence_number,
   writer_guid |-> s.writer_guid,
   related_sample_identity |-> s.related_sample_identity]

ReadError_Deserialization(s) ==
  [variant |-> "Deserialization", writer_guid |-> s.writer_guid,
   sequence_number |-> s.sequence_number]

ReadError_Internal(reason) == [variant |-> "Internal", reason |-> reason]

\* datareader.try_take_one() / try_take_one_seed(seed): the transport's
\* non-suspending "take one if present".  An empty buffer gives Ok(None); the
\* oldest buffered sample is removed and given as Ok(Some(dcc)), or as Err when
\* it cannot be deserialized.
try_take_one(c) ==
  IF c = <<>>
    THEN [ret |-> [kind |-> "OkNone"], cache |-> c]
    ELSE [ret |-> IF Head(c).readable
                    THEN [kind |-> "OkSome", dcc |-> DeserializedCacheChange(Head(c))]
                    ELSE [kind |-> "Err", error |-> ReadError_Deserialization(Head(c))],
          cache |-> Tail(c)]

\* datareader.as_async_stream().next(): the next item of the transport's
\* sample stream: a sample or a read error while the buffer holds one, pending
\* on an empty buffer, and the end of the stream once the source has ended.
stream_poll_next(c, open) ==
  IF c # <<>>
    THEN [ret |-> IF Head(c).readable
                    THEN [kind |-> "SomeOk", dcc |-> DeserializedCacheChange(Head(c))]
                    ELSE [kind |-> "SomeErr", error |-> ReadError_Deserialization(Head(c))],
          cache |-> Tail(c)]
    ELSE [ret |-> [kind |-> IF open THEN "Pending" ELSE "End"], cache |-> c]

\* A plausible slip: the sequence number is left at its default.
MessageInfo_from_default_sn(dcc) ==
  [received_timestamp |-> Timestamp_ZERO,
   source_timestamp |-> dcc.source_timestamp,
   sequence_number |-> 0,
   publisher |-> dcc.writer_guid,
   related_sample_identity |-> dcc.related_sample_identity]

\* impl From<&DeserializedCacheChange<M>> for MessageInfo
MessageInfo_from(dcc) ==
  [received_timestamp |-> Timestamp_ZERO,
   source_timestamp |-> dcc.source_timestamp,
   sequence_number |-> dcc.sequence_number,
   publisher |-> dcc.writer_guid,
   related_sample_identity |-> dcc.related_sample_identity]

\* fn dcc_to_value_and_messageinfo: the pair (dcc.into_value(), mi)
dcc_to_value_and_messageinfo(dcc) ==
  [value |-> dcc.value, info |-> MessageInfo_from(dcc)]

\* A plausible slip: the read error is swallowed (`.ok().flatten()` for `?`).
take_result_swallows_error(r) ==
  CASE r.kind = "Err" -> [kind |-> "OkNone"]
    [] r.kind = "OkNone" -> [kind |-> "OkNone"]
    [] r.kind = "OkSome" -> [kind |-> "OkSome", pair |-> dcc_to_value_and_messageinfo(r.dcc)]

\* take / take_seed after the transport call: `let ds = ...?; Ok(ds.map(..))`
take_result(r) ==
  CASE r.kind = "Err" -> [kind |-> "Err", error |-> r.error]
    [] r.kind = "OkNone" -> [kind |-> "OkNone"]
    [] r.kind = "OkSome" -> [kind |-> "OkSome", pair |-> dcc_to_value_and_messageinfo(r.dcc)]

\* A plausible slip: the end of the stream is waited out as if nothing had come.
async_take_result_end_is_normal(n) ==
  CASE n.kind = "SomeErr" -> [kind |-> "Err", error |-> n.error]
    [] n.kind = "SomeOk" -> [kind |-> "Ok", pair |-> dcc_to_value_and_messageinfo(n.dcc)]
    [] n.kind = "End" -> [kind |-> "End"]

\* async_take: the match on async_stream.next().await
async_take_result(n) ==
  CASE n.kind = "SomeErr" -> [kind |-> "Err", error |-> n.error]
    [] n.kind = "SomeOk" -> [kind |-> "Ok", pair |-> dcc_to_value_and_messageinfo(n.dcc)]
    [] n.kind = "End" ->
         [kind |-> "Err",
          error |-> ReadError_Internal(
                      "async_take(): SimpleDataReader value stream unexpectedly ended!")]

\* async_stream: `.map(|result| result.map(dcc_to_value_and_messageinfo))`.
\* StreamExt::map rewrites the items; the end of the stream stays the end.
async_stream_item(n) ==
  CASE n.kind = "SomeErr" -> [kind |-> "SomeErr", error |-> n.error]
    [] n.kind = "SomeOk" -> [kind |-> "SomeOk", pair |-> dcc_to_value_and_messageinfo(n.dcc)]
    [] n.kind = "End" -> [kind |-> "End"]

SubInit ==
  /\ cache = <<>>
  /\ notifications = 0
  /\ source_open = TRUE
  /\ taken = <<>>
  /\ delivered = <<>>
  /\ take_streak = 0
  /\ async_take_pc = "idle"
  /\ stream_pc = "none"
  /\ last = [op |-> "none"]

\* The transport buffers a sample received from some writer.
SampleArrives ==
  /\ source_open
  /\ Len(Arrived) < MaxSamples
  /\ \E g \in Guids, si \in SampleInfos, ok \in BOOLEAN :
       cache' = Append(cache,
                       [value |-> Len(Arrived) + 1,
                        source_timestamp |-> si.source_timestamp,
                        sequence_number |-> NextSequenceNumber(g),
                        writer_guid |-> g,
                        related_sample_identity |-> si.related_sample_identity,
                        readable |-> ok])
  /\ notifications' = notifications + 1
  /\ take_streak' = 0
  /\ UNCHANGED <<source_open, taken, delivered, async_take_pc, stream_pc, last>>
  /\ UNCHANGED <<marshal_vars, pub_vars>>

\* The transport's sample source ends (it is not supposed to).
SourceEnds ==
  /\ source_open
  /\ source_open' = FALSE
  /\ UNCHANGED <<cache, notifications, taken, delivered, take_streak, async_take_pc, stream_pc,
                 last>>
  /\ UNCHANGED <<marshal_vars, pub_vars>>

\* What one completed call leaves behind: the buffer, the histories and `last`.
Completed(op, t, r, pair) ==
  /\ cache' = t.cache
  /\ taken' = taken \o SubSeq(cache, 1, Len(cache) - Len(t.cache))
  /\ delivered' = IF pair THEN Append(delivered, r.pair) ELSE delivered
  /\ take_streak' = IF op # "take" \/ r.kind = "Err" THEN 0
                    ELSE IF pair THEN take_streak + 1
                    ELSE take_streak
  /\ last' = [op |-> op, transport |-> t.ret, result |-> r,
              buffered_before |-> Len(cache), buffered_after |-> Len(t.cache)]

\* A plausible slip: take-one is called twice and the first sample is lost.
Take_takes_twice ==
  LET first == try_take_one(cache)
      t == try_take_one(first.cache)
      r == take_result(t.ret)
  IN /\ notifications' = 0
     /\ Completed("take", t, r, r.kind = "OkSome")
     /\ UNCHANGED <<source_open, async_take_pc, stream_pc>>
     /\ UNCHANGED <<marshal_vars, pub_vars>>

\* Subscription::take
Take ==
  LET t == try_take_one(cache)
      r == take_result(t.ret)
  IN /\ notifications' = 0
     /\ Completed("take", t, r, r.kind = "OkSome")
     /\ UNCHANGED <<source_open, async_take_pc, stream_pc>>
     /\ UNCHANGED <<marshal_vars, pub_vars>>

\* Subscription::take_seed
TakeSeed ==
  LET t == try_take_one(cache)
      r == take_result(t.ret)
  IN /\ notifications' = 0
     /\ Completed("take_seed", t, r, r.kind = "OkSome")
     /\ UNCHANGED <<source_open, async_take_pc, stream_pc>>
     /\ UNCHANGED <<marshal_vars, pub_vars>>

\* Subscription::async_take up to its await
AsyncTakeCall ==
  /\ async_take_pc = "idle"
  /\ async_take_pc' = "awaiting"
  /\ UNCHANGED <<cache, notifications, source_open, taken, delivered, take_streak, stream_pc,
                 last>>
  /\ UNCHANGED <<marshal_vars, pub_vars>>

\* Subscription::async_take from the await on: the stream's next item is matched.
AsyncTakeResume ==
  /\ async_take_pc = "awaiting"
  /\ LET t == stream_poll_next(cache, source_open)
         r == async_take_result(t.ret)
     IN /\ t.ret.kind # "Pending"
        /\ Completed("async_take", t, r, r.kind = "Ok")
  /\ async_take_pc' = "idle"
  /\ UNCHANGED <<notifications, source_open, stream_pc>>
  /\ UNCHANGED <<marshal_vars, pub_vars>>

\* The caller drops the async_take future while it is suspended.
AsyncTakeCancel ==
  /\ async_take_pc = "awaiting"
  /\ async_take_pc' = "idle"
  /\ UNCHANGED <<cache, notifications, source_open, taken, delivered, take_streak, stream_pc,
                 last>>
  /\ UNCHANGED <<marshal_vars, pub_vars>>

\* Subscription::async_stream
AsyncStream ==
  /\ stream_pc = "none"
  /\ stream_pc' = "open"
  /\ UNCHANGED <<cache, notifications, source_open, taken, delivered, take_streak,
                 async_take_pc, last>>
  /\ UNCHANGED <<marshal_vars, pub_vars>>

\* The consumer polls the Stream returned by async_stream for its next item.
StreamNext ==
  /\ stream_pc = "open"
  /\ LET t == stream_poll_next(cache, source_open)
         r == async_stream_item(t.ret)
     IN /\ t.ret.kind # "Pending"
        /\ Completed("stream_next", t, r, r.kind = "SomeOk")
        /\ stream_pc' = IF r.kind = "End" THEN "done" ELSE "open"
  /\ UNCHANGED <<notifications, source_open, async_take_pc>>
  /\ UNCHANGED <<marshal_vars, pub_vars>>

\* The consumer drops the Stream.
StreamDrop ==
  /\ stream_pc \in {"open", "done"}
  /\ stream_pc' = "none"
  /\ UNCHANGED <<cache, notifications, source_open, taken, delivered, take_streak,
                 async_take_pc, last>>
  /\ UNCHANGED <<marshal_vars, pub_vars>>

SubNext ==
  \/ SampleArrives
  \/ SourceEnds
  \/ Take
  \/ TakeSeed
  \/ AsyncTakeCall
  \/ AsyncTakeResume
  \/ AsyncTakeCancel
  \/ AsyncStream
  \/ StreamNext
  \/ StreamDrop

(***************************************************************************)
(* pubsub.rs: Publisher<M> over a DataWriter.                              *)
(***************************************************************************)
Messages == {"hello", "world"}

\* How the transport may answer a write: it accepts it, or rejects it for one
\* of these reasons.
WriteErrors == {"WouldBlock", "Serialization", "Poisoned"}
WriteVerdicts == {"accept"} \cup WriteErrors

\* datawriter.write(message, source_timestamp) / async_write(..).await: the
\* transport's send.  An accepted message is sent with its timestamp; a
\* rejected one comes back to the caller inside the error.
datawriter_write(message, source_timestamp, verdict) ==
  IF verdict = "accept"
    THEN [ret |-> [kind |-> "Ok"],
          sent |-> <<[message |-> message, source_timestamp |-> source_timestamp]>>]
    ELSE [ret |-> [kind |-> "Err", variant |-> verdict, data |-> message],
          sent |-> <<>>]

\* A plausible slip: the error is passed on stripped of its payload
\* (`.map_err(|e| e.forget_data())`).
publish_forgets_data(message, now, verdict) ==
  LET w == datawriter_write(message, Some(now), verdict)
  IN IF w.ret.kind = "Err"
       THEN [w EXCEPT !.ret = [kind |-> "Err", variant |-> w.ret.variant]]
       ELSE w

\* Publisher::publish / Publisher::async_publish: the transport's answer to
\* write(message, Some(Timestamp::now())) is the call's answer.
publish(message, now, verdict) ==
  datawriter_write(message, Some(now), verdict)

PubInit ==
  /\ clock = 0
  /\ sent = <<>>
  /\ async_publish_pc = Null
  /\ pub_last = [op |-> "none"]

\* Time passes.
Tick ==
  /\ clock < MaxClock
  /\ clock' = clock + 1
  /\ UNCHANGED <<sent, async_publish_pc, pub_last>>
  /\ UNCHANGED <<marshal_vars, sub_vars>>

\* Publisher::publish
Publish ==
  /\ \E message \in Messages, verdict \in WriteVerdicts :
       LET w == publish(message, clock, verdict)
       IN /\ Len(sent) + Len(w.sent) <= MaxSent
          /\ sent' = sent \o w.sent
          /\ pub_last' = [op |-> "publish", message |-> message, verdict |-> verdict,
                          result |-> w.ret, sent_before |-> sent]
  /\ UNCHANGED <<clock, async_publish_pc>>
  /\ UNCHANGED <<marshal_vars, sub_vars>>

\* Publisher::async_publish up to its await: the future owns the message.
AsyncPublishCall ==
  /\ async_publish_pc = Null
  /\ \E message \in Messages : async_publish_pc' = [kind |-> "awaiting", message |-> message]
  /\ UNCHANGED <<clock, sent, pub_last>>
  /\ UNCHANGED <<marshal_vars, sub_vars>>

\* Publisher::async_publish from the await on: the transport answers the write.
AsyncPublishResume ==
  /\ async_publish_pc # Null
  /\ \E verdict \in WriteVerdicts :
       LET message == async_publish_pc.message
           w == publish(message, clock, verdict)
       IN /\ Len(sent) + Len(w.sent) <= MaxSent
          /\ sent' = sent \o w.sent
          /\ pub_last' = [op |-> "async_publish", message |-> message, verdict |-> verdict,
                          result |-> w.ret, sent_before |-> sent]
  /\ async_publish_pc' = Null
  /\ UNCHANGED clock
  /\ UNCHANGED <<marshal_vars, sub_vars>>

PubNext ==
  \/ Tick
  \/ Publish
  \/ AsyncPublishCall
  \/ AsyncPublishResume

(***************************************************************************)
(* Specifications.  The marshaller, the Subscription and the Publisher     *)
(* share no state; each is also run on its own.                            *)
(***************************************************************************)
Init == MarshalInit /\ SubInit /\ PubInit

Next == MarshalNext \/ SubNext \/ PubNext

Spec == Init /\ [][Next]_vars

SpecMarshal == Init /\ [][MarshalNext]_vars

SpecSubscription == Init /\ [][SubNext]_vars

SpecPublisher == Init /\ [][PubNext]_vars

(***************************************************************************)
(* Claims about the Subscription, checked under SpecSubscription.          *)
(***************************************************************************)
Readable(s) == s.readable

\* The samples handed out so far that the transport could deserialize.
ReadableTaken == SelectSeq(taken, Readable)

C5_MetadataCorrespondence ==
  /\ Len(delivered) = Len(ReadableTaken)
  /\ \A i \in 1..Len(delivered) :
       LET s == ReadableTaken[i]
           d == delivered[i]
       IN /\ d.value = s.value
          /\ d.info.sequence_number = s.sequence_number
          /\ d.info.publisher = s.writer_guid
          /\ d.info.source_timestamp = s.source_timestamp
          /\ d.info.related_sample_identity = s.related_sample_identity
  /\ \A i, j \in 1..Len(Arrived) :
       (/\ Arrived[i].writer_guid = Arrived[j].writer_guid
        /\ Arrived[i].sequence_number = Arrived[j].sequence_number) => i = j

\* Two samples of one publisher with different metadata were buffered
\* together and both have been returned, the second by the stream.
C5_Witness ==
  /\ Len(delivered) = 2
  /\ delivered[1].info.publisher = delivered[2].info.publisher
  /\ delivered[1].info.source_timestamp # delivered[2].info.source_timestamp
  /\ delivered[1].info.related_sample_identity # delivered[2].info.related_sample_identity
  /\ notifications = 2
  /\ last.op = "stream_next"
  /\ last.buffered_before = 1
  /\ last.result.kind = "SomeOk"

\* C7: async_take completes with the next sample and its MessageInfo, with
\* the transport's read error, or, when the sample stream ends, with an
\* internal read error; the end of the stream is never a sample or a normal
\* completion.
C7_AsyncTakeOutcomes ==
  last.op = "async_take" =>
    /\ last.result.kind \in {"Ok", "Err"}
    /\ last.transport.kind = "SomeOk" =>
         /\ last.result.kind = "Ok"
         /\ last.result.pair.value = last.transport.dcc.value
    /\ last.transport.kind = "SomeErr" =>
         last.result = [kind |-> "Err", error |-> last.transport.error]
    /\ last.transport.kind = "End" =>
         /\ last.result.kind = "Err"
         /\ last.result.error.variant = "Internal"

\* An async_take was suspended and resumed by the end of the sample stream.
C7_Witness ==
  /\ last.op = "async_take"
  /\ last.transport.kind = "End"
  /\ ~source_open

\* C8: the Stream returned by async_stream never completes: when the
\* transport's sample source ends, the consumer is given an error item.
C8_StreamNeverCompletes ==
  /\ stream_pc # "done"
  /\ (last.op = "stream_next" /\ last.transport.kind = "End")
       => last.result.kind = "SomeErr"

\* C9: take and take_seed return absent exactly when the transport reported
\* no buffered sample and return the transport's error whenever its take-one
\* failed; take, take_seed, async_take and the stream pass a transport read
\* error to the caller unchanged.
C9_ReadFailureSurfaced ==
  /\ last.op \in {"take", "take_seed"} =>
       /\ (last.result.kind = "OkNone") <=> (last.transport.kind = "OkNone")
       /\ last.result.kind = "OkNone" => last.buffered_before = 0
       /\ last.transport.kind = "Err" =>
            last.result = [kind |-> "Err", error |-> last.transport.error]
  /\ last.op = "async_take" =>
       (last.transport.kind = "SomeErr" =>
          last.result = [kind |-> "Err", error |-> last.transport.error])
  /\ last.op = "stream_next" =>
       (last.transport.kind = "SomeErr" =>
          last.result = [kind |-> "SomeErr", error |-> last.transport.error])

\* A take found a buffered sample the transport could not read, with a
\* readable one behind it.
C9_Witness ==
  /\ last.op = "take"
  /\ last.transport.kind = "Err"
  /\ last.result.kind = "Err"
  /\ cache # <<>>

(***************************************************************************)
(* Claims about the Publisher, checked under SpecPublisher.                *)
(***************************************************************************)

\* C6: when the transport rejects the write, publish and async_publish
\* return a failure that carries a message equal to the submitted one, and
\* nothing is sent.
C6_SendFailureReturnsPayload ==
  (pub_last.op \in {"publish", "async_publish"} /\ pub_last.verdict # "accept") =>
    /\ pub_last.result.kind = "Err"
    /\ DOMAIN pub_last.result = {"kind", "variant", "data"}
    /\ pub_last.result.data = pub_last.message
    /\ sent = pub_last.sent_before

\* An async_publish was rejected after an earlier message had been accepted.
C6_Witness ==
  /\ pub_last.op = "async_publish"
  /\ pub_last.verdict = "WouldBlock"
  /\ pub_last.message = "world"
  /\ Len(sent) = 1
  /\ sent[1].message = "hello"

=============================================================================
